---- MODULE Spec2Model ----
(***************************************************************************)
(* Model of the Obsidian-to-Anki sync plugin: the ribbon handler of        *)
(* YetAnotherObsidianToAnkiPlugin.onload, FlashcardProcessor.process and   *)
(* the AnkiManager requests it drives.                                     *)
(*                                                                         *)
(* Text is modelled as a sequence of tokens.  A token is a record          *)
(* [k, v]: a word of plain text, a run of whitespace, the delimiter        *)
(* " ::: ", a comment "<!-- noteId:N -->", a comment                       *)
(* "<!-- validNoteIds: e1,e2,... -->" or a line break.  The two regular    *)
(* expressions and indexOf(" ::: ") match whole tokens: none of the three  *)
(* patterns can overlap another one inside a string.                       *)
(***************************************************************************)
EXTENDS Integers, Sequences, FiniteSets, TLC

\* ------------------------------------------------------------------ bounds

MaxLines == 2
MaxSyncs == 2
FirstNewId == 3

\* ------------------------------------------------------------------ tokens

\* An entry of a validNoteIds list that parseInt turns into NaN.
NaN == 0 - 1

T(c) == [k |-> "txt", v |-> <<c>>]
SP == [k |-> "sp", v |-> <<>>]
NL == [k |-> "nl", v |-> <<>>]
DELIM == [k |-> "delim", v |-> <<>>]
NID(n) == [k |-> "nid", v |-> <<n>>]
VID(e) == [k |-> "vid", v |-> e]

Min(S) == CHOOSE x \in S : \A y \in S : x <= y
Max(S) == CHOOSE x \in S : \A y \in S : x >= y

\* Indices of the tokens of kind kd in s.
Positions(s, kd) == {j \in 1..Len(s) : s[j].k = kd}

\* ------------------------------------------------------------------ strings

\* String.prototype.split("\n"): always at least one line.
RECURSIVE Split(_)
Split(s) ==
    IF Positions(s, "nl") = {}
    THEN <<s>>
    ELSE LET p == Min(Positions(s, "nl"))
         IN  <<SubSeq(s, 1, p - 1)>> \o Split(SubSeq(s, p + 1, Len(s)))

\* Array.prototype.join("\n").
RECURSIVE Join(_)
Join(ls) ==
    IF Len(ls) = 0 THEN <<>>
    ELSE IF Len(ls) = 1 THEN ls[1]
    ELSE ls[1] \o <<NL>> \o Join(Tail(ls))

\* String.prototype.trim(): whitespace removed at both ends only.
Trim(s) ==
    LET keep == {j \in 1..Len(s) : s[j].k # "sp"}
    IN  IF keep = {} THEN <<>> ELSE SubSeq(s, Min(keep), Max(keep))

\* line.indexOf(" ::: "): the first delimiter, 0 when there is none (-1 in JS).
IndexOfDelim(line) ==
    IF Positions(line, "delim") = {} THEN 0 ELSE Min(Positions(line, "delim"))

\* A match that looks for the comment only after the delimiter.
NoteIdMatch_BackOnly(s) ==
    Positions(SubSeq(s, IndexOfDelim(s) + 1, Len(s)), "nid") # {}

\* NOTE_ID_REGEX: line.match(NOTE_ID_REGEX) is non-null.
NoteIdMatch(s) == Positions(s, "nid") # {}

\* parseInt(noteIdMatch[1]) of the first match.
NoteIdOf(s) == s[Min(Positions(s, "nid"))].v[1]

\* s.replace(NOTE_ID_REGEX, ""): the first match only (no g flag).
ReplaceNoteId(s) ==
    IF Positions(s, "nid") = {} THEN s
    ELSE LET p == Min(Positions(s, "nid"))
         IN  SubSeq(s, 1, p - 1) \o SubSeq(s, p + 1, Len(s))

\* line.slice(0, idx).trim()
FrontOf(line) == Trim(SubSeq(line, 1, IndexOfDelim(line) - 1))

\* line.slice(idx + 5).replace(NOTE_ID_REGEX, "").trim()
BackOf(line) ==
    Trim(ReplaceNoteId(SubSeq(line, IndexOfDelim(line) + 1, Len(line))))

\* IsFlashcard with neither `continue` of line 58.
IsFlashcard_DelimOnly(line) == IndexOfDelim(line) # 0

\* IsFlashcard without the test of the back.
IsFlashcard_NoBackTest(line) ==
    /\ IndexOfDelim(line) # 0
    /\ FrontOf(line) # <<>>

\* The two `continue` tests of the loop: a line that gets a store call.
IsFlashcard(line) ==
    /\ IndexOfDelim(line) # 0
    /\ FrontOf(line) # <<>>
    /\ BackOf(line) # <<>>

\* VALID_IDS_REGEX.test(line)
ValidIdsTest(line) == Positions(line, "vid") # {}

\* parseValidNoteIds that reads the last match instead of the first.
ParseValidNoteIds_Last(c) ==
    IF Positions(c, "vid") = {} THEN <<>>
    ELSE SelectSeq(c[Max(Positions(c, "vid"))].v, LAMBDA n : n # NaN)

\* parseValidNoteIds(content): the first match in the whole content, its
\* entries parsed and the NaN ones filtered out.
ParseValidNoteIds(c) ==
    IF Positions(c, "vid") = {} THEN <<>>
    ELSE SelectSeq(c[Min(Positions(c, "vid"))].v, LAMBDA n : n # NaN)

\* includes that finds nothing.
Includes_Never(ids, id) == FALSE

\* noteIdsInFile.includes(id)
Includes(ids, id) == \E j \in 1..Len(ids) : ids[j] = id

\* DeletedIds without the filter.
DeletedIds_NoFilter(prevIds, ids) == prevIds

\* prevIds.filter(id => !noteIdsInFile.includes(id))
DeletedIds(prevIds, ids) == SelectSeq(prevIds, LAMBDA n : ~Includes(ids, n))

\* `${line} <!-- noteId:${newId} -->`
Annotate(line, newId) == line \o <<SP, NID(newId)>>

\* CleanedLines that keeps the previous comment lines.
CleanedLines_NoFilter(ls) == ls

\* lines.filter(line => !VALID_IDS_REGEX.test(line))
CleanedLines(ls) == SelectSeq(ls, LAMBDA l : ~ValidIdsTest(l))

\* A line that is left empty when there is no identifier to list.
ValidIdsLine_OmitEmpty(ids) == IF ids = <<>> THEN <<>> ELSE <<VID(ids)>>

\* `<!-- validNoteIds: ${noteIdsInFile.join(",")} -->`
ValidIdsLine(ids) == <<VID(ids)>>

\* Render that writes a line listing nothing.
Render_NoIds(ls, ids) == Join(Append(CleanedLines(ls), ValidIdsLine(<<>>)))

\* The value process() returns.
Render(ls, ids) == Join(Append(CleanedLines(ls), ValidIdsLine(ids)))

\* ------------------------------------------------------------------ inputs

\* The lines a document is drawn from.
L_text == <<T(3)>>
L_new == <<T(1), DELIM, T(2)>>
L_id1 == <<T(1), DELIM, T(2), SP, NID(1)>>
L_noback == <<T(1), DELIM, SP>>
L_idonly == <<T(1), DELIM, NID(1)>>
L_idfront == <<NID(1), SP, T(1), DELIM, T(2)>>
L_vid1 == <<VID(<<1>>)>>
L_vid12 == <<VID(<<1, NaN, 2>>)>>
L_cardvid == <<T(1), DELIM, T(2), SP, VID(<<1>>)>>

LineSet ==
    {L_text, L_new, L_id1, L_noback, L_idonly, L_idfront,
     L_vid1, L_vid12, L_cardvid}

Documents ==
    UNION {[1..n -> LineSet] : n \in 1..MaxLines}

\* What AnkiConnect answers: a result, an error whose message contains
\* "duplicate", or any other error.
Responses == {"ok", "dup", "err"}

\* What the metadata cache holds for the active file.
Frontmatters == {"none", "nodeck", "deck"}

\* ------------------------------------------------------------------ state

VARIABLES
    file,           \* the text of the active file in the vault
    pc,             \* where the ribbon callback is
    sync,           \* how many times the ribbon action has been invoked
    content,        \* const content = await this.app.vault.read(file)
    lines,          \* process(): lines
    i,              \* process(): the loop index, from 1
    noteIdsInFile,  \* process(): noteIdsInFile
    deletedIds,     \* process(): deletedIds
    updatedContent, \* the value process() returned
    nextId,         \* the identifier AnkiConnect gives the next added note
    reqs,           \* the requests of this sync, with their answers
    outcome,        \* how this sync ended, "none" while it runs
    wrote,          \* vault.modify succeeded in this sync
    prev,           \* the last sync in which process() returned
    activeFile,     \* whether getActiveFile() returned a file to this sync
    frontmatter,    \* what the metadata cache held for it
    notices,        \* the Notices this sync has shown
    console,        \* what this sync has printed on the console
    parked          \* a second ribbon callback, suspended at an await

vars ==
    <<file, pc, sync, content, lines, i, noteIdsInFile, deletedIds,
      updatedContent, nextId, reqs, outcome, wrote, prev, activeFile,
      frontmatter, notices, console, parked>>

Req(op, ln, id, front, back, ids, res) ==
    [op |-> op, line |-> ln, id |-> id, front |-> front, back |-> back,
     ids |-> ids, res |-> res]

\* The successful addNote requests among rs.
AddsOf(rs) == SelectSeq(rs, LAMBDA r : r.op = "addNote" /\ r.res = "ok")

\* What is remembered of a sync once the next one starts.
Summary ==
    [outcome |-> outcome, content |-> content, result |-> updatedContent,
     adds |-> AddsOf(reqs), wrote |-> wrote]

NoSummary ==
    [outcome |-> "none", content |-> <<>>, result |-> <<>>, adds |-> <<>>,
     wrote |-> FALSE]

\* AnkiManager.request: json.error is thrown, json.result is returned.
Throws(res) == res # "ok"

\* IsDuplicate that recognises no error.
IsDuplicate_Never(res) == FALSE

\* error.message.includes("duplicate")
IsDuplicate(res) == res = "dup"

\* getDeckNameFromFrontmatter that finds a deck in every file.
DeckName_Always(fm) == "deck"

\* getDeckNameFromFrontmatter: frontmatter?.deck, undefined when there is none.
DeckName(fm) == IF fm = "deck" THEN "deck" ELSE "undefined"

\* The Notice getDeckNameFromFrontmatter shows before it returns undefined.
NoticeOf(fm) ==
    IF fm = "none" THEN <<"No frontmatter found in the current file.">>
    ELSE IF fm = "nodeck" THEN <<"Missing 'deck' field in frontmatter.">>
    ELSE <<>>

\* A logger that prints.
DEBUG_On == TRUE

\* export const DEBUG = false;
DEBUG == FALSE

\* logWithLevel, once per entry: if (!DEBUG) return; console[level](...).
Log(con, entries) == IF ~DEBUG THEN con ELSE con \o entries

\* The locals of one ribbon callback; the event loop runs one at a time.
Locals ==
    [pc |-> pc, content |-> content, lines |-> lines, i |-> i,
     noteIdsInFile |-> noteIdsInFile, deletedIds |-> deletedIds,
     updatedContent |-> updatedContent, reqs |-> reqs, outcome |-> outcome,
     wrote |-> wrote, activeFile |-> activeFile, frontmatter |-> frontmatter,
     notices |-> notices, console |-> console]

NoLocals ==
    [pc |-> "idle", content |-> <<>>, lines |-> <<>>, i |-> 1,
     noteIdsInFile |-> <<>>, deletedIds |-> <<>>, updatedContent |-> <<>>,
     reqs |-> <<>>, outcome |-> "none", wrote |-> FALSE,
     activeFile |-> FALSE, frontmatter |-> "none", notices |-> <<>>,
     console |-> <<>>]

Init ==
    /\ file \in {Join(d) : d \in Documents}
    /\ pc = "idle"
    /\ sync = 0
    /\ content = <<>>
    /\ lines = <<>>
    /\ i = 1
    /\ noteIdsInFile = <<>>
    /\ deletedIds = <<>>
    /\ updatedContent = <<>>
    /\ nextId = FirstNewId
    /\ reqs = <<>>
    /\ outcome = "none"
    /\ wrote = FALSE
    /\ prev = NoSummary
    /\ activeFile = FALSE
    /\ frontmatter = "none"
    /\ notices = <<>>
    /\ console = <<>>
    /\ parked = NoLocals

Idle == pc \in {"idle", "done", "failed", "ended"}

\* The ribbon callback up to its first await: no active file, or
\* getDeckNameFromFrontmatter returns undefined, and it returns.
Callback(active, fm) ==
    /\ sync < MaxSyncs
    /\ sync' = sync + 1
    /\ activeFile' = active
    /\ frontmatter' = IF active THEN fm ELSE "none"
    /\ content' = <<>>
    /\ lines' = <<>>
    /\ i' = 1
    /\ noteIdsInFile' = <<>>
    /\ deletedIds' = <<>>
    /\ updatedContent' = <<>>
    /\ reqs' = <<>>
    /\ wrote' = FALSE
    /\ prev' = IF outcome \in {"ok", "write"} THEN Summary ELSE prev
    /\ IF ~active
       THEN /\ pc' = "ended"
            /\ outcome' = "config"
            /\ notices' = <<>>
            /\ console' = Log(<<>>, <<"warn">>)
       ELSE IF DeckName(fm) = "undefined"
       THEN /\ pc' = "ended"
            /\ outcome' = "config"
            /\ notices' = NoticeOf(fm)
            /\ console' = Log(<<>>, <<"warn">>)
       ELSE /\ pc' = "read"
            /\ outcome' = "none"
            /\ notices' = <<>>
            /\ console' = <<>>
    /\ UNCHANGED <<file, nextId>>

\* The user clicks the ribbon icon while no earlier callback is running.
Click(active, fm) ==
    /\ Idle
    /\ parked.pc = "idle"
    /\ Callback(active, fm)
    /\ UNCHANGED parked

\* await this.app.vault.read(file), then manager.createDeck() is sent.
ReadFile ==
    /\ pc = "read"
    /\ content' = file
    /\ pc' = "deck"
    /\ UNCHANGED <<file, sync, lines, i, noteIdsInFile, deletedIds,
                   updatedContent, nextId, reqs, outcome, wrote, prev,
                   activeFile, frontmatter, notices, parked>>
    /\ console' = Log(console, <<"info", "log">>)

\* CreateDeckReply that goes on after an error.
CreateDeckReply_IgnoreError(res) ==
    /\ pc = "deck"
    /\ reqs' = Append(reqs, Req("createDeck", 0, 0, <<>>, <<>>, <<>>, res))
    /\ pc' = "loop"
    /\ lines' = Split(content)
    /\ UNCHANGED <<file, sync, content, i, noteIdsInFile, deletedIds,
                   updatedContent, nextId, outcome, wrote, prev,
                   activeFile, frontmatter, notices, parked>>
    /\ console' = Log(console, <<"log">>)

\* The answer to createDeck; on success process() starts.
CreateDeckReply(res) ==
    /\ pc = "deck"
    /\ LET rs == Append(reqs, Req("createDeck", 0, 0, <<>>, <<>>, <<>>, res))
       IN  /\ reqs' = rs
           /\ IF Throws(res)
              THEN /\ pc' = "failed"
                   /\ outcome' = "deck"
                   /\ UNCHANGED lines
              ELSE /\ pc' = "loop"
                   /\ lines' = Split(content)
                   /\ UNCHANGED outcome
    /\ UNCHANGED <<file, sync, content, i, noteIdsInFile, deletedIds,
                   updatedContent, nextId, wrote, prev,
                   activeFile, frontmatter, notices, parked>>
    /\ console' = Log(console, IF Throws(res) THEN <<"error">> ELSE <<"log">>)

\* The two `continue` statements: not a flashcard line, or an incomplete card.
SkipLine ==
    /\ pc = "loop"
    /\ i <= Len(lines)
    /\ ~IsFlashcard(lines[i])
    /\ i' = i + 1
    /\ UNCHANGED <<file, pc, sync, content, lines, noteIdsInFile, deletedIds,
                   updatedContent, nextId, reqs, outcome, wrote, prev,
                   activeFile, frontmatter, notices, console, parked>>

\* UpdateNote whose catch block does not rethrow.
UpdateNote_NoRethrow(res) ==
    /\ pc = "loop"
    /\ i <= Len(lines)
    /\ IsFlashcard(lines[i])
    /\ NoteIdMatch(lines[i])
    /\ reqs' = Append(reqs, Req("updateNoteFields", i, NoteIdOf(lines[i]),
                                FrontOf(lines[i]), BackOf(lines[i]), <<>>, res))
    /\ noteIdsInFile' =
           IF Throws(res) THEN noteIdsInFile
           ELSE Append(noteIdsInFile, NoteIdOf(lines[i]))
    /\ i' = i + 1
    /\ UNCHANGED <<file, pc, sync, content, lines, deletedIds, updatedContent,
                   nextId, outcome, wrote, prev,
                   activeFile, frontmatter, notices, parked>>
    /\ console' = Log(console, IF Throws(res)
                                THEN <<"info", "info", "log", "error", "error">>
                                ELSE <<"info", "info", "log", "log">>)

\* UpdateNote that forgets noteIdsInFile.push(noteId).
UpdateNote_NoPush(res) ==
    /\ pc = "loop"
    /\ i <= Len(lines)
    /\ IsFlashcard(lines[i])
    /\ NoteIdMatch(lines[i])
    /\ LET line == lines[i]
           noteId == NoteIdOf(line)
           rs == Append(reqs, Req("updateNoteFields", i, noteId,
                                  FrontOf(line), BackOf(line), <<>>, res))
       IN  /\ reqs' = rs
           /\ IF Throws(res)
              THEN /\ pc' = "failed"
                   /\ outcome' = "update"
                   /\ UNCHANGED <<i, noteIdsInFile>>
              ELSE /\ noteIdsInFile' = noteIdsInFile
                   /\ i' = i + 1
                   /\ UNCHANGED <<pc, outcome>>
    /\ UNCHANGED <<file, sync, content, lines, deletedIds, updatedContent,
                   nextId, wrote, prev,
                   activeFile, frontmatter, notices, parked>>
    /\ console' = Log(console, IF Throws(res)
                                THEN <<"info", "info", "log", "error", "error">>
                                ELSE <<"info", "info", "log", "log">>)

\* if (noteIdMatch): await this.manager.updateNote(noteId, front, back).
UpdateNote(res) ==
    /\ pc = "loop"
    /\ i <= Len(lines)
    /\ IsFlashcard(lines[i])
    /\ NoteIdMatch(lines[i])
    /\ LET line == lines[i]
           noteId == NoteIdOf(line)
           rs == Append(reqs, Req("updateNoteFields", i, noteId,
                                  FrontOf(line), BackOf(line), <<>>, res))
       IN  /\ reqs' = rs
           /\ IF Throws(res)
              THEN /\ pc' = "failed"
                   /\ outcome' = "update"
                   /\ UNCHANGED <<i, noteIdsInFile>>
              ELSE /\ noteIdsInFile' = Append(noteIdsInFile, noteId)
                   /\ i' = i + 1
                   /\ UNCHANGED <<pc, outcome>>
    /\ UNCHANGED <<file, sync, content, lines, deletedIds, updatedContent,
                   nextId, wrote, prev,
                   activeFile, frontmatter, notices, parked>>
    /\ console' = Log(console, IF Throws(res)
                                THEN <<"info", "info", "log", "error", "error">>
                                ELSE <<"info", "info", "log", "log">>)

\* else: await this.manager.addNote(front, back), and its catch block.
AddNote(res) ==
    /\ pc = "loop"
    /\ i <= Len(lines)
    /\ IsFlashcard(lines[i])
    /\ ~NoteIdMatch(lines[i])
    /\ LET line == lines[i]
           newId == IF res = "ok" THEN nextId ELSE 0
           rs == Append(reqs, Req("addNote", i, newId,
                                  FrontOf(line), BackOf(line), <<>>, res))
       IN  /\ reqs' = rs
           /\ IF ~Throws(res)
              THEN /\ lines' = [lines EXCEPT ![i] = Annotate(line, newId)]
                   /\ noteIdsInFile' = Append(noteIdsInFile, newId)
                   /\ nextId' = nextId + 1
                   /\ i' = i + 1
                   /\ UNCHANGED <<pc, outcome>>
              ELSE IF IsDuplicate(res)
              THEN /\ i' = i + 1
                   /\ UNCHANGED <<pc, lines, noteIdsInFile, nextId, outcome>>
              ELSE /\ pc' = "failed"
                   /\ outcome' = "add"
                   /\ UNCHANGED <<i, lines, noteIdsInFile, nextId>>
    /\ UNCHANGED <<file, sync, content, deletedIds, updatedContent, wrote,
                   prev,
                   activeFile, frontmatter, notices, parked>>
    /\ console' = Log(console, IF ~Throws(res)
                                THEN <<"info", "info", "log", "log">>
                                ELSE IF IsDuplicate(res)
                                THEN <<"info", "info", "log", "error", "warn">>
                                ELSE <<"info", "info", "log", "error", "error">>)

\* AfterLoop that does not wait for the end of the loop.
AfterLoop_Early ==
    /\ pc = "loop"
    /\ LET del == DeletedIds(ParseValidNoteIds(content), noteIdsInFile)
       IN  /\ deletedIds' = del
           /\ IF Len(del) # 0
              THEN /\ pc' = "delete"
                   /\ UNCHANGED updatedContent
              ELSE /\ pc' = "write"
                   /\ updatedContent' = Render(lines, noteIdsInFile)
    /\ UNCHANGED <<file, sync, content, lines, i, noteIdsInFile, nextId,
                   reqs, outcome, wrote, prev,
                   activeFile, frontmatter, notices, parked>>
    /\ console' = Log(console, IF Len(DeletedIds(ParseValidNoteIds(content),
                                                   noteIdsInFile)) # 0
                                THEN <<"warn", "info", "log">>
                                ELSE <<"log">>)

\* After the loop: prevIds, deletedIds, and either deleteNotes is sent or
\* process() returns.
AfterLoop ==
    /\ pc = "loop"
    /\ i > Len(lines)
    /\ LET del == DeletedIds(ParseValidNoteIds(content), noteIdsInFile)
       IN  /\ deletedIds' = del
           /\ IF Len(del) # 0
              THEN /\ pc' = "delete"
                   /\ UNCHANGED updatedContent
              ELSE /\ pc' = "write"
                   /\ updatedContent' = Render(lines, noteIdsInFile)
    /\ UNCHANGED <<file, sync, content, lines, i, noteIdsInFile, nextId,
                   reqs, outcome, wrote, prev,
                   activeFile, frontmatter, notices, parked>>
    /\ console' = Log(console, IF Len(DeletedIds(ParseValidNoteIds(content),
                                                   noteIdsInFile)) # 0
                                THEN <<"warn", "info", "log">>
                                ELSE <<"log">>)

\* DeleteReply whose catch block does not rethrow.
DeleteReply_NoRethrow(res) ==
    /\ pc = "delete"
    /\ reqs' = Append(reqs, Req("deleteNotes", 0, 0, <<>>, <<>>,
                                deletedIds, res))
    /\ pc' = "write"
    /\ updatedContent' = Render(lines, noteIdsInFile)
    /\ UNCHANGED <<file, sync, content, lines, i, noteIdsInFile, deletedIds,
                   nextId, outcome, wrote, prev,
                   activeFile, frontmatter, notices, parked>>
    /\ console' = Log(console, IF Throws(res) THEN <<"error", "error", "log">>
                                ELSE <<"log", "log">>)

\* The answer to deleteNotes: the catch block logs and rethrows.
DeleteReply(res) ==
    /\ pc = "delete"
    /\ LET rs == Append(reqs, Req("deleteNotes", 0, 0, <<>>, <<>>,
                                  deletedIds, res))
       IN  /\ reqs' = rs
           /\ IF Throws(res)
              THEN /\ pc' = "failed"
                   /\ outcome' = "delete"
                   /\ UNCHANGED updatedContent
              ELSE /\ pc' = "write"
                   /\ updatedContent' = Render(lines, noteIdsInFile)
                   /\ UNCHANGED outcome
    /\ UNCHANGED <<file, sync, content, lines, i, noteIdsInFile, deletedIds,
                   nextId, wrote, prev,
                   activeFile, frontmatter, notices, parked>>
    /\ console' = Log(console, IF Throws(res) THEN <<"error", "error">>
                                ELSE <<"log", "log">>)

\* The condition without its comparison to the text read.
MustModify_NonEmpty == updatedContent # <<>>

\* if (updatedContent && updatedContent !== content)
MustModify == updatedContent # <<>> /\ updatedContent # content

\* Modify whose rejected write has replaced the text all the same.
Modify_Torn(ok) ==
    /\ pc = "write"
    /\ MustModify
    /\ IF ok
       THEN /\ file' = updatedContent
            /\ pc' = "done"
            /\ outcome' = "ok"
            /\ wrote' = TRUE
       ELSE /\ pc' = "failed"
            /\ outcome' = "write"
            /\ file' = updatedContent
            /\ UNCHANGED wrote
    /\ UNCHANGED <<sync, content, lines, i, noteIdsInFile, deletedIds,
                   updatedContent, nextId, reqs, prev,
                   activeFile, frontmatter, notices, parked>>
    /\ console' = Log(console, IF ok THEN <<"info">> ELSE <<>>)

\* await this.app.vault.modify(file, updatedContent), which may reject.
Modify(ok) ==
    /\ pc = "write"
    /\ MustModify
    /\ IF ok
       THEN /\ file' = updatedContent
            /\ pc' = "done"
            /\ outcome' = "ok"
            /\ wrote' = TRUE
       ELSE /\ pc' = "failed"
            /\ outcome' = "write"
            /\ UNCHANGED <<file, wrote>>
    /\ UNCHANGED <<sync, content, lines, i, noteIdsInFile, deletedIds,
                   updatedContent, nextId, reqs, prev,
                   activeFile, frontmatter, notices, parked>>
    /\ console' = Log(console, IF ok THEN <<"info">> ELSE <<>>)

\* The condition is false: the file is left alone.
NoModify ==
    /\ pc = "write"
    /\ ~MustModify
    /\ pc' = "done"
    /\ outcome' = "ok"
    /\ UNCHANGED <<file, sync, content, lines, i, noteIdsInFile, deletedIds,
                   updatedContent, nextId, reqs, wrote, prev,
                   activeFile, frontmatter, notices, console, parked>>

Next ==
    \/ \E active \in BOOLEAN, fm \in Frontmatters : Click(active, fm)
    \/ ReadFile
    \/ \E res \in Responses : CreateDeckReply(res)
    \/ SkipLine
    \/ \E res \in Responses : UpdateNote(res)
    \/ \E res \in Responses : AddNote(res)
    \/ AfterLoop
    \/ \E res \in Responses : DeleteReply(res)
    \/ \E ok \in BOOLEAN : Modify(ok)
    \/ NoModify

Spec == Init /\ [][Next]_vars

\* ------------------------------------------------- overlapping callbacks
\* addRibbonIcon registers an async callback and holds no lock: a click
\* while an earlier callback waits at an await starts a second one.

InFlight(p) == p \in {"read", "deck", "loop", "delete", "write"}

\* A second click: the running callback stays suspended at its await.
ClickAgain(active, fm) ==
    /\ InFlight(pc)
    /\ parked.pc = "idle"
    /\ parked' = Locals
    /\ Callback(active, fm)

\* The event loop resumes the other callback, whose await has resolved.
Resume ==
    /\ InFlight(parked.pc)
    /\ parked' = Locals
    /\ pc' = parked.pc
    /\ content' = parked.content
    /\ lines' = parked.lines
    /\ i' = parked.i
    /\ noteIdsInFile' = parked.noteIdsInFile
    /\ deletedIds' = parked.deletedIds
    /\ updatedContent' = parked.updatedContent
    /\ reqs' = parked.reqs
    /\ outcome' = parked.outcome
    /\ wrote' = parked.wrote
    /\ activeFile' = parked.activeFile
    /\ frontmatter' = parked.frontmatter
    /\ notices' = parked.notices
    /\ console' = parked.console
    /\ UNCHANGED <<file, sync, nextId, prev>>

NextOverlap ==
    \/ Next
    \/ \E active \in BOOLEAN, fm \in Frontmatters : ClickAgain(active, fm)
    \/ Resume

SpecOverlap == Init /\ [][NextOverlap]_vars

\* ------------------------------------------------------------------ claims

Last(q) == q[Len(q)]

\* process() has returned in this sync.
Returned == pc \in {"write", "done"} \/ outcome = "write"

\* This sync ran to completion on exactly what process() returned in the
\* last sync before it that ran to completion.
SecondPass ==
    /\ pc = "done"
    /\ prev.outcome = "ok"
    /\ content = prev.result

\* C1: idempotence.  When a sync runs to completion on the output of the
\* previous completed sync and the store answers as before (no add succeeds
\* that was rejected before, nothing fails), process() returns its input.
C1_Idempotent ==
    (SecondPass /\ AddsOf(reqs) = <<>>) => updatedContent = content

\* C2: round trip of identifiers.  A record added in the previous pass with
\* identifier N gets updateNoteFields(N, front, back) in the pass that runs on
\* that pass's output, and no addNote is sent for the line that carries N.
C2_RoundTrip ==
    SecondPass =>
        \A k \in 1..Len(prev.adds) :
            LET a == prev.adds[k]
            IN  /\ \E j \in 1..Len(reqs) :
                       /\ reqs[j].op = "updateNoteFields"
                       /\ reqs[j].id = a.id
                       /\ reqs[j].front = a.front
                       /\ reqs[j].back = a.back
                /\ \A j \in 1..Len(reqs) :
                       reqs[j].op = "addNote" =>
                           LET l == Split(content)[reqs[j].line]
                           IN  NID(a.id) \notin {l[x] : x \in 1..Len(l)}

\* The lines of the document that was read.
InputLines == Split(content)

\* The entries of a list that are identifiers, as a set.
IdSet(q) == {q[j] : j \in 1..Len(q)} \ {NaN}

\* The previous valid-identifier set: the identifiers listed by the first
\* validNoteIds comment of the document.
PreviousSetOf(il) ==
    LET withVid == {j \in 1..Len(il) : \E x \in 1..Len(il[j]) : il[j][x].k = "vid"}
    IN  IF withVid = {} THEN {}
        ELSE LET l == il[Min(withVid)]
                 x == Min({y \in 1..Len(l) : l[y].k = "vid"})
             IN  IdSet(l[x].v)

PreviousSet == PreviousSetOf(InputLines)

\* The deleteNotes requests of this sync.
Deletes == SelectSeq(reqs, LAMBDA r : r.op = "deleteNotes")

\* The identifiers of the successful updates and adds of this sync.
Accumulated ==
    {reqs[j].id : j \in {x \in 1..Len(reqs) :
        reqs[x].op \in {"updateNoteFields", "addNote"} /\ reqs[x].res = "ok"}}

\* C3: deletion detection.  deleteNotes is sent at most once and never while
\* lines are still being processed; once the lines are done and the sync got
\* past the deletion step, it was sent exactly once with the previous
\* identifiers that were not accumulated, or not at all if there are none.
C3_DeletionDetection ==
    /\ Len(Deletes) <= 1
    /\ pc \in {"deck", "loop"} => Len(Deletes) = 0
    /\ (Returned \/ outcome = "delete") =>
           LET gone == PreviousSet \ Accumulated
           IN  IF gone = {}
               THEN Len(Deletes) = 0
               ELSE /\ Len(Deletes) = 1
                    /\ IdSet(Deletes[1].ids) = gone
                    /\ \A j \in 1..Len(Deletes[1].ids) : Deletes[1].ids[j] # NaN

C3_Witness ==
    /\ pc = "done"
    /\ Len(Deletes) = 1
    /\ Deletes[1].ids = <<2>>
    /\ Accumulated = {1}
    /\ PreviousSet = {1, 2}

\* A line with the delimiter whose trimmed front and trimmed back, the
\* identifier comment removed from the back, are both non-empty.
ValidCardLine(l) ==
    LET d == Positions(l, "delim")
    IN  /\ d # {}
        /\ LET p == Min(d)
               nb == {x \in (p + 1)..Len(l) : l[x].k = "nid"}
           IN  /\ \E x \in 1..(p - 1) : l[x].k # "sp"
               /\ \E x \in (p + 1)..Len(l) :
                      l[x].k # "sp" /\ (nb = {} \/ x # Min(nb))

ValidCardsOf(il) == {j \in 1..Len(il) : ValidCardLine(il[j])}

ValidCards == ValidCardsOf(InputLines)

\* The addNote and updateNoteFields requests of this sync.
RecordReqs ==
    SelectSeq(reqs, LAMBDA r : r.op \in {"addNote", "updateNoteFields"})

\* C4: in a sync that ran to completion the add/update requests are, in
\* order, one per valid flashcard line: addNote when the line carries no
\* identifier comment, updateNoteFields with the line's identifier otherwise,
\* each with the line's front and back; no other line causes a request.
C4_OneCallPerCard ==
    Returned =>
        LET il == InputLines
            cards == ValidCardsOf(il)
            rr == RecordReqs
        IN
        /\ Len(rr) = Cardinality(cards)
        /\ \A k \in 1..Len(rr) :
               LET r == rr[k]
                   l == il[r.line]
               IN  /\ r.line \in cards
                   /\ Cardinality({j \in cards : j <= r.line}) = k
                   /\ r.front = FrontOf(l)
                   /\ r.back = BackOf(l)
                   /\ IF \E x \in 1..Len(l) : l[x].k = "nid"
                      THEN r.op = "updateNoteFields" /\ r.id = NoteIdOf(l)
                      ELSE r.op = "addNote"

\* A second pass over an unchanged, already synced card sends the update again.
C4_Witness ==
    /\ SecondPass
    /\ updatedContent = content
    /\ Len(RecordReqs) = 2
    /\ RecordReqs[1].op = "updateNoteFields"
    /\ RecordReqs[2].op = "addNote"

\* The lines of the document process() returned.
OutputLines == Split(updatedContent)

\* The input lines that are not valid-identifier-set lines.
SurvivingOf(il) ==
    {j \in 1..Len(il) : ~\E x \in 1..Len(il[j]) : il[j][x].k = "vid"}

\* C5: for every successful addNote of a completed pass, the output holds,
\* at the record's position among the surviving lines, the record's original
\* line followed by one space and the identifier comment.
C5_CommentAppended ==
    Returned =>
        LET il == InputLines
            ol == OutputLines
            surviving == SurvivingOf(il)
        IN
        \A k \in 1..Len(reqs) :
            (reqs[k].op = "addNote" /\ reqs[k].res = "ok") =>
                LET p == Cardinality({j \in surviving : j <= reqs[k].line})
                IN  /\ reqs[k].line \in surviving
                    /\ p <= Len(ol)
                    /\ ol[p] = il[reqs[k].line] \o <<SP, NID(reqs[k].id)>>

\* The output lines that hold a validNoteIds comment.
ValidIdsLinesOf(ol) ==
    {j \in 1..Len(ol) : \E x \in 1..Len(ol[j]) : ol[j][x].k = "vid"}

\* C6: the output of a completed pass holds exactly one valid-identifier-set
\* line, and it is the last line.
C6_AnnotationPlacement ==
    Returned => LET ol == OutputLines IN ValidIdsLinesOf(ol) = {Len(ol)}

\* The input held two valid-identifier-set lines.
C6_Witness ==
    /\ pc = "done"
    /\ Cardinality(ValidIdsLinesOf(InputLines)) = 2
    /\ Len(OutputLines) = 1

\* The number of successful add and update requests among the first n.
OkCount(n) ==
    Cardinality({x \in 1..n :
        reqs[x].op \in {"updateNoteFields", "addNote"} /\ reqs[x].res = "ok"})

\* C7: an addNote rejected as a duplicate leaves the record's line as it
\* was, adds no identifier to the current set, raises no error and lets the
\* loop go on with the following lines.
C7_DuplicateSkipped ==
    \A k \in 1..Len(reqs) :
        (reqs[k].op = "addNote" /\ reqs[k].res = "dup") =>
            /\ reqs[k].id = 0
            /\ lines[reqs[k].line] = InputLines[reqs[k].line]
            /\ Len(noteIdsInFile) = OkCount(Len(reqs))
            /\ i > reqs[k].line
            /\ k = Len(reqs) =>
                   /\ Len(noteIdsInFile) = OkCount(k - 1)
                   /\ pc = "failed" => outcome = "write"

\* A duplicate was skipped and a later line got its request.
C7_Witness ==
    \E k \in 1..Len(reqs) :
        /\ reqs[k].op = "addNote"
        /\ reqs[k].res = "dup"
        /\ k < Len(reqs)
        /\ reqs[k + 1].op = "addNote"
        /\ reqs[k + 1].res = "ok"
        /\ pc = "done"

\* A failed updateNoteFields, or an addNote failed with another error than a
\* duplicate.
RecordFailure(r) ==
    \/ r.op = "updateNoteFields" /\ r.res # "ok"
    \/ r.op = "addNote" /\ r.res = "err"

\* C8: when an add or update fails the sync aborts: the failed request is
\* the last request of the sync, none of them is a deleteNotes, the loop
\* stays on the failing line, and the requests before it all succeeded and
\* stay applied.
C8_FailureAborts ==
    \A k \in 1..Len(reqs) :
        RecordFailure(reqs[k]) =>
            /\ k = Len(reqs)
            /\ pc = "failed"
            /\ outcome \in {"add", "update"}
            /\ Len(Deletes) = 0
            /\ i = reqs[k].line
            /\ Len(noteIdsInFile) = OkCount(k - 1)
            /\ \A x \in 2..(k - 1) :
                   /\ reqs[x].op \in {"addNote", "updateNoteFields"}
                   /\ ~RecordFailure(reqs[x])
                   /\ reqs[x].line < reqs[k].line

\* An add succeeded on the first line and the request for the second failed.
C8_Witness ==
    /\ pc = "failed"
    /\ Len(reqs) = 3
    /\ reqs[2].op = "addNote"
    /\ reqs[2].res = "ok"
    /\ RecordFailure(reqs[3])
    /\ PreviousSet # {}

\* A deleteNotes request that was answered with an error.
DeleteFailure(r) == r.op = "deleteNotes" /\ r.res # "ok"

\* C9 as stated: a failed deleteNotes does not stop the sync, process()
\* still returns the rewritten document.
C9_DeleteFailureNonFatal ==
    \A k \in 1..Len(reqs) : DeleteFailure(reqs[k]) => Returned

\* C9 as amended: a failed deleteNotes aborts the sync.  It is the last
\* request, process() returns nothing, the file keeps the text that was
\* read, and the adds and updates before it all succeeded and stay applied.
C9_DeleteFailureAborts ==
    \A k \in 1..Len(reqs) :
        DeleteFailure(reqs[k]) =>
            /\ k = Len(reqs)
            /\ pc = "failed"
            /\ outcome = "delete"
            /\ ~wrote
            /\ updatedContent = <<>>
            /\ file = content
            /\ Len(noteIdsInFile) = OkCount(k - 1)
            /\ \A x \in 2..(k - 1) : ~RecordFailure(reqs[x])

\* The delete failed after an add had succeeded in the same sync.
C9_Witness ==
    /\ pc = "failed"
    /\ DeleteFailure(Last(reqs))
    /\ AddsOf(reqs) # <<>>

\* C10: a sync that reads the document sends createDeck first and only
\* once; when createDeck fails nothing else is sent and the file keeps the
\* text that was read.
C10_CollectionEnsure ==
    /\ pc \in {"loop", "delete", "write", "done"} => Len(reqs) >= 1
    /\ \A k \in 1..Len(reqs) : reqs[k].op = "createDeck" <=> k = 1
    /\ (Len(reqs) >= 1 /\ reqs[1].res # "ok") =>
           /\ Len(reqs) = 1
           /\ pc = "failed"
           /\ outcome = "deck"
           /\ ~wrote
           /\ updatedContent = <<>>
           /\ file = content

\* createDeck failed on a document with a card to add and identifiers to
\* delete.
C10_Witness ==
    /\ pc = "failed"
    /\ Len(reqs) = 1
    /\ reqs[1].res = "err"
    /\ ValidCards # {}
    /\ PreviousSet # {}

\* C11: a sync that finds no active document, or no deck name in its
\* frontmatter, ends as a configuration error: it has read nothing, sent no
\* request to the store, computed no output and written nothing.
C11_ConfigurationError ==
    (sync > 0 /\ ~(activeFile /\ frontmatter = "deck")) =>
        /\ pc = "ended"
        /\ outcome = "config"
        /\ reqs = <<>>
        /\ content = <<>>
        /\ updatedContent = <<>>
        /\ ~wrote

\* The second sync finds frontmatter without a deck, after a first one that
\* wrote the file.
C11_Witness ==
    /\ outcome = "config"
    /\ activeFile
    /\ frontmatter = "nodeck"
    /\ prev.wrote

\* A valid-identifier-set line: the line is the validNoteIds comment.
IsValidSetLine(l) == Len(Trim(l)) = 1 /\ Trim(l)[1].k = "vid"

\* The input lines as the output may show them: the line of a record added in
\* this sync has its identifier comment appended, the others are untouched.
ExpectedOf(il) ==
    [j \in 1..Len(il) |->
        IF \E k \in 1..Len(reqs) :
               reqs[k].op = "addNote" /\ reqs[k].res = "ok" /\ reqs[k].line = j
        THEN LET k == CHOOSE x \in 1..Len(reqs) :
                          reqs[x].op = "addNote" /\ reqs[x].res = "ok"
                          /\ reqs[x].line = j
             IN  il[j] \o <<SP, NID(reqs[k].id)>>
        ELSE il[j]]

\* C12: in the output of a completed sync every input line that is not a
\* valid-identifier-set line appears exactly once and in the input's order,
\* changed at most by the identifier comment appended to the line of a record
\* added in this sync, and the only other line is the valid-identifier-set
\* line at the end.
C12_LinePreservation ==
    Returned =>
        LET il == InputLines
            ol == OutputLines
            kept == SelectSeq(ExpectedOf(il), LAMBDA l : ~IsValidSetLine(l))
        IN  /\ Len(ol) = Len(kept) + 1
            /\ SubSeq(ol, 1, Len(kept)) = kept
            /\ IsValidSetLine(Last(ol))

\* The input lines that hold the delimiter but have an empty front or back.
IncompleteOf(il) ==
    {j \in 1..Len(il) :
        /\ \E x \in 1..Len(il[j]) : il[j][x].k = "delim"
        /\ ~ValidCardLine(il[j])}

\* The identifiers of the answered add and update requests, in order.
AnsweredIds ==
    LET ok == SelectSeq(reqs, LAMBDA r :
                  r.op \in {"updateNoteFields", "addNote"} /\ r.res = "ok")
    IN  [x \in 1..Len(ok) |-> ok[x].id]

OutcomeCount ==
    Cardinality({k \in 1..Len(reqs) :
        \/ reqs[k].op \in {"updateNoteFields", "addNote"}
        \/ reqs[k].res # "ok"})
    + (IF outcome \in {"config", "write"} THEN 1 ELSE 0)

\* What the user has been shown in this sync.
ReportCount == Len(notices) + Len(console)

\* C14, as the specification states it: every terminal outcome of a sync has
\* produced a report of its own that the user can see.
C14_EveryOutcomeReported == ReportCount >= OutcomeCount

\* C14: with DEBUG false the logger prints nothing, so the only report the
\* user ever sees is the one Notice of a sync that found a file whose
\* frontmatter is missing or has no deck; adds, updates, duplicate skips,
\* failed store operations, a failed write and a missing active file are
\* reported nowhere.
C14_OnlyFrontmatterNoticed ==
    /\ console = <<>>
    /\ notices # <<>> <=> (outcome = "config" /\ activeFile)
    /\ notices # <<>> => notices = NoticeOf(frontmatter)

\* A sync that skipped a duplicate and then failed on an update, with
\* nothing shown to the user.
C14_Witness ==
    /\ pc = "failed"
    /\ outcome = "update"
    /\ Len(reqs) = 3
    /\ reqs[2].res = "dup"
    /\ ReportCount = 0

\* C15: two syncs of the file are never both between their read of the file
\* and their end, and a sync about to write the file has computed its output
\* from what the file still holds.
C15_SyncsSerialized ==
    /\ ~(/\ InFlight(pc) /\ pc # "read"
         /\ InFlight(parked.pc) /\ parked.pc # "read")
    /\ (pc = "write" /\ MustModify) => file = content

IsRecordReq(r) == r.op \in {"updateNoteFields", "addNote"}

\* C16: the requests of one sync, in the order they were sent, are createDeck,
\* then one add or update for each valid flashcard line reached so far, by
\* ascending line, then at most one deleteNotes, sent after the last line;
\* and each request but the last had been answered, without an error that
\* ends the sync, before the next one was sent.
C16_RequestOrder ==
    LET n == Len(reqs)
        il == InputLines
    IN  /\ n >= 1 => reqs[1].op = "createDeck"
        /\ \A k \in 2..n : reqs[k].op # "createDeck"
        /\ \A k \in 1..n : reqs[k].op = "deleteNotes" =>
               k = n /\ i > Len(lines) /\ n > 1
        /\ \A k \in 1..n : \A m \in (k + 1)..n :
               (IsRecordReq(reqs[k]) /\ IsRecordReq(reqs[m])) =>
                   reqs[k].line < reqs[m].line
        /\ \A k \in 1..(n - 1) :
               \/ reqs[k].res = "ok"
               \/ reqs[k].op = "addNote" /\ reqs[k].res = "dup"
        /\ pc \in {"read", "deck", "ended"} => n = 0
        /\ lines # <<>> =>
               {reqs[k].line : k \in {x \in 1..n : IsRecordReq(reqs[x])}}
                   = {j \in ValidCardsOf(il) : j < i \/ (j = i /\ pc = "failed")}

\* A completed sync that sent createDeck, an update for the card on line 1,
\* and then deleteNotes.
C16_Witness ==
    /\ pc = "done"
    /\ Len(reqs) = 3
    /\ reqs[1].op = "createDeck"
    /\ reqs[2].op = "updateNoteFields" /\ reqs[2].line = 1
    /\ reqs[3].op = "deleteNotes" /\ reqs[3].res = "ok"

\* The identifiers of the identifier comments on the valid flashcard lines of
\* ol, in line order.
CarriedOf(ol) ==
    LET cards == SelectSeq(ol, LAMBDA l : ValidCardLine(l) /\ NoteIdMatch(l))
    IN  [x \in 1..Len(cards) |-> NoteIdOf(cards[x])]

\* C17: in the output of a completed sync the identifiers listed in the
\* valid-identifier-set line are, in the same order, the identifiers of the
\* identifier comments on the valid flashcard lines of that output.
C17_Bookkeeping ==
    Returned =>
        LET ol == OutputLines
        IN  /\ IsValidSetLine(Last(ol))
            /\ Last(ol)[1].v = CarriedOf(ol)

\* C18: every identifier passed to deleteNotes is a number of the previous
\* valid-identifier set and is not the identifier of an answered update or
\* add of the same sync; and every identifier listed in the new
\* valid-identifier-set line is the identifier of such an update or add and
\* was not passed to deleteNotes.
C18_DeleteSafety ==
    LET il == InputLines
        previous == PreviousSetOf(il)
        passed == IF pc = "delete" THEN <<deletedIds>>
                  ELSE [x \in 1..Len(Deletes) |-> Deletes[x].ids]
    IN  /\ \A x \in 1..Len(passed) :
            /\ passed[x] # <<>>
            /\ \A y \in 1..Len(passed[x]) : passed[x][y] # NaN
            /\ IdSet(passed[x]) \subseteq previous
            /\ IdSet(passed[x]) \cap Accumulated = {}
        /\ Returned =>
            LET listed == IdSet(Last(OutputLines)[1].v)
            IN  /\ listed \subseteq Accumulated
                /\ \A x \in 1..Len(passed) : listed \cap IdSet(passed[x]) = {}

\* A completed sync over a document listing 1 and 2 whose only card carries
\* 1: the card was updated, 2 was deleted, and the new line lists 1.
C18_Witness ==
    /\ pc = "done"
    /\ Len(Deletes) = 1
    /\ Deletes[1].ids = <<2>>
    /\ Deletes[1].res = "ok"
    /\ Accumulated = {1}
    /\ Last(OutputLines) = <<VID(<<1>>)>>

\* The identifiers of all identifier comments on the line l.
NoteIdsOn(l) == {l[x].v[1] : x \in Positions(l, "nid")}

\* The identifiers the last completed sync passed to deleteNotes: the numbers
\* its input listed and its output does not.
PrevDeleted ==
    IF prev.outcome = "none" THEN {}
    ELSE PreviousSetOf(Split(prev.content))
             \ IdSet(Last(Split(prev.result))[1].v)

\* C19: when process() has returned, no line of its output carries an
\* identifier comment for an identifier passed to deleteNotes in this sync;
\* and a sync sends no update for an identifier that the sync before it
\* passed to deleteNotes.
C19_DeletedIdsGone ==
    /\ Returned =>
           LET ol == OutputLines
           IN  \A j \in 1..Len(ol) : \A x \in 1..Len(Deletes) :
                   NoteIdsOn(ol[j]) \cap IdSet(Deletes[x].ids) = {}
    /\ \A k \in 1..Len(reqs) :
           reqs[k].op = "updateNoteFields" => reqs[k].id \notin PrevDeleted

NoteIdCount(l) == Cardinality(Positions(l, "nid"))

\* C20: over successive syncs of a file whose lines began with at most one
\* identifier comment each, no line of the file, of a sync's working copy or
\* of its output has more than one; a line is annotated only if the input
\* line had none, and a line that had one is left as it was.
C20_SingleComment ==
    LET fl == Split(file)
        il == InputLines
    IN  /\ \A j \in 1..Len(fl) : NoteIdCount(fl[j]) <= 1
        /\ \A j \in 1..Len(lines) :
            /\ NoteIdCount(lines[j]) <= 1
            /\ NoteIdCount(il[j]) = 1 => lines[j] = il[j]
            /\ lines[j] # il[j] =>
                /\ NoteIdCount(il[j]) = 0
                /\ \E k \in 1..Len(reqs) :
                    /\ reqs[k].op = "addNote" /\ reqs[k].res = "ok"
                    /\ reqs[k].line = j
                    /\ lines[j] = il[j] \o <<SP, NID(reqs[k].id)>>
        /\ Returned =>
            LET ol == OutputLines
            IN  \A j \in 1..Len(ol) : NoteIdCount(ol[j]) <= 1

\* The second sync has run on the first one's output: the line the first
\* annotated was updated under that identifier and still has one comment.
C20_Witness ==
    /\ sync = 2
    /\ pc = "done"
    /\ prev.wrote
    /\ prev.adds # <<>>
    /\ content = prev.result
    /\ \E k \in 1..Len(reqs) :
        /\ reqs[k].op = "updateNoteFields"
        /\ reqs[k].res = "ok"
        /\ reqs[k].id = prev.adds[1].id
        /\ reqs[k].line = prev.adds[1].line
        /\ NoteIdCount(Split(file)[reqs[k].line]) = 1

\* C21: the valid-identifier-set line written when process() returns lists
\* the identifiers of the answered updates and adds of this sync, one entry
\* for each, by ascending line; a duplicate skip and a skipped line add no
\* entry, and no number of the previous set that no record reproduced is
\* listed.
C21_ValidSetContents ==
    Returned =>
        LET il == InputLines
            ol == OutputLines
            ok == SelectSeq(reqs, LAMBDA r : IsRecordReq(r) /\ r.res = "ok")
            listed == Last(ol)[1].v
        IN  /\ Last(ol) = <<VID(listed)>>
            /\ Len(listed) = Len(ok)
            /\ \A x \in 1..Len(ok) : listed[x] = ok[x].id
            /\ \A x \in 1..Len(ok) : \A y \in (x + 1)..Len(ok) :
                   ok[x].line < ok[y].line
            /\ \A k \in 1..Len(reqs) :
                   reqs[k].res = "dup" => reqs[k].id \notin IdSet(listed)
            /\ IdSet(listed) \cap (PreviousSetOf(il) \ Accumulated) = {}

\* A completed sync over a document listing 1 and 2: the card carrying 1 was
\* updated, 2 was deleted, and the new line lists only 1.
C21_Witness ==
    /\ pc = "done"
    /\ wrote
    /\ PreviousSet = {1, 2}
    /\ Len(RecordReqs) = 1
    /\ RecordReqs[1].op = "updateNoteFields"
    /\ Last(OutputLines) = <<VID(<<1>>)>>
    /\ Len(OutputLines) = 2

\* C22, as the specification states it: an update is sent only for an
\* identifier that the previous valid-identifier set lists.
C22_RetainedOnlyIfListed ==
    LET previous == PreviousSetOf(InputLines)
    IN  \A k \in 1..Len(reqs) :
            reqs[k].op = "updateNoteFields" => reqs[k].id \in previous

\* C22: a valid flashcard line that carries an identifier comment is updated
\* under that identifier, and the identifier is put into the current set once
\* the update is answered, whether or not the previous valid-identifier set
\* lists it; the previous set decides only what is deleted.
C22_RetainedByComment ==
    (lines # <<>>) =>
        LET il == InputLines
            listed == IdSet(Last(OutputLines)[1].v)
        IN  /\ \A j \in ValidCardsOf(il) :
                (NoteIdMatch(il[j]) /\ (j < i \/ (j = i /\ pc = "failed"))) =>
                    \E k \in 1..Len(reqs) :
                        /\ reqs[k].op = "updateNoteFields"
                        /\ reqs[k].line = j
                        /\ reqs[k].id = NoteIdOf(il[j])
            /\ \A k \in 1..Len(reqs) :
                (reqs[k].op = "updateNoteFields" /\ reqs[k].res = "ok") =>
                    /\ Includes(noteIdsInFile, reqs[k].id)
                    /\ Returned => reqs[k].id \in listed

\* A completed sync of a document with no valid-identifier-set line: the card
\* carrying 1 was updated and the line written lists 1.
C22_Witness ==
    /\ pc = "done"
    /\ wrote
    /\ PreviousSet = {}
    /\ Len(reqs) = 2
    /\ reqs[2].op = "updateNoteFields" /\ reqs[2].id = 1 /\ reqs[2].res = "ok"
    /\ Last(OutputLines) = <<VID(<<1>>)>>

\* The part of the line l after its first delimiter.
BackPortion(l) == SubSeq(l, IndexOfDelim(l) + 1, Len(l))

\* C23: a record is sent as an update exactly when the back portion of its
\* line holds an identifier comment, the identifier sent is that comment's,
\* and the back text sent to the store by an add or an update holds no
\* identifier comment.
C23_IdentifierFromBack ==
    LET il == InputLines
    IN  \A k \in 1..Len(reqs) :
            IsRecordReq(reqs[k]) =>
                LET bp == BackPortion(il[reqs[k].line])
                IN  /\ reqs[k].op = "updateNoteFields" <=> NoteIdMatch(bp)
                    /\ reqs[k].op = "updateNoteFields" =>
                           reqs[k].id = NoteIdOf(bp)
                    /\ ~NoteIdMatch(reqs[k].back)

\* C24: when vault.modify fails after an add was answered, the file keeps the
\* text that was read, in which the added line has no identifier comment; and
\* the next sync to reach that line sends addNote for it, not an update.
C24_WriteFailureReAdds ==
    /\ outcome = "write" =>
           /\ ~wrote
           /\ file = content
           /\ \A k \in 1..Len(reqs) :
                  (reqs[k].op = "addNote" /\ reqs[k].res = "ok") =>
                      ~NoteIdMatch(Split(file)[reqs[k].line])
    /\ (prev.outcome = "write" /\ lines # <<>>) =>
           /\ content = prev.content
           /\ \A x \in 1..Len(prev.adds) :
                  LET j == prev.adds[x].line
                  IN  /\ \A k \in 1..Len(reqs) :
                             reqs[k].line = j => reqs[k].op = "addNote"
                      /\ (j < i \/ (j = i /\ pc = "failed")) =>
                             \E k \in 1..Len(reqs) :
                                 /\ reqs[k].op = "addNote"
                                 /\ reqs[k].line = j
                                 /\ reqs[k].front = prev.adds[x].front
                                 /\ reqs[k].back = prev.adds[x].back

\* The write of the first sync failed after it had added a card; the second
\* sync has added the same card again, under a new identifier.
C24_Witness ==
    /\ sync = 2
    /\ prev.outcome = "write"
    /\ prev.adds # <<>>
    /\ pc = "done"
    /\ \E k \in 1..Len(reqs) :
        /\ reqs[k].op = "addNote"
        /\ reqs[k].res = "ok"
        /\ reqs[k].line = prev.adds[1].line
        /\ reqs[k].id > prev.adds[1].id

\* A step that changes the file or counts as this sync's write.
WritesFile == file' # file \/ (wrote' /\ ~wrote)

\* C25: the file changes only in the one write of a sync: the sync has not
\* written before, the file still holds the text that was read, createDeck
\* and an add or update for every valid flashcard line were answered without
\* an error that ends the sync, deleteNotes was answered if there was
\* anything to delete, and the text written differs from the text read.
C25_WriteOnce ==
    [][WritesFile =>
        /\ pc = "write" /\ pc' = "done"
        /\ ~wrote /\ wrote'
        /\ file = content
        /\ file' = updatedContent
        /\ updatedContent # content
        /\ Len(reqs) >= 1 /\ reqs[1].op = "createDeck"
        /\ \A k \in 1..Len(reqs) :
               reqs[k].res = "ok" \/ (reqs[k].op = "addNote" /\ reqs[k].res = "dup")
        /\ Len(RecordReqs) = Cardinality(ValidCardsOf(InputLines))
        /\ (PreviousSetOf(InputLines) \ Accumulated # {}) => Len(Deletes) = 1
      ]_vars

\* A sync that added a card, deleted the identifier the document listed, and
\* then wrote the file.
C25_Witness ==
    /\ pc = "done"
    /\ wrote
    /\ file = updatedContent
    /\ Len(reqs) = 3
    /\ reqs[2].op = "addNote" /\ reqs[2].res = "ok"
    /\ reqs[3].op = "deleteNotes" /\ reqs[3].res = "ok"

\* The numbers listed by any validNoteIds comment of the lines il.
AllListedOf(il) ==
    LET toks == UNION {{il[j][x] : x \in Positions(il[j], "vid")} :
                           j \in 1..Len(il)}
    IN  UNION {IdSet(t.v) : t \in toks}

\* C26: the identifiers passed to deleteNotes come from the first
\* validNoteIds comment of the document only, so a number that only a later
\* one lists is never passed; and every line holding such a comment is gone
\* from the output, whose only such line is the new one at the end.
C26_FirstSetOnly ==
    LET il == InputLines
        first == PreviousSetOf(il)
        laterOnly == AllListedOf(il) \ first
        passed == IF pc = "delete" THEN <<deletedIds>>
                  ELSE [x \in 1..Len(Deletes) |-> Deletes[x].ids]
    IN  /\ \A x \in 1..Len(passed) :
            /\ IdSet(passed[x]) \subseteq first
            /\ IdSet(passed[x]) \cap laterOnly = {}
        /\ Returned =>
            LET ol == OutputLines
            IN  /\ ValidIdsLinesOf(ol) = {Len(ol)}
                /\ Len(ol) = Cardinality(SurvivingOf(il)) + 1

\* A completed sync of a document of two valid-identifier-set lines, the
\* first listing 1 and the second 1 and 2: only 1 was deleted, and the output
\* is the one new line.
C26_Witness ==
    /\ pc = "done"
    /\ InputLines = <<L_vid1, L_vid12>>
    /\ Len(Deletes) = 1
    /\ Deletes[1].ids = <<1>>
    /\ OutputLines = <<ValidIdsLine(<<>>)>>

\* C27, as the specification states it: the line written lists one or more
\* identifiers, all of them decimal numbers.
C27_OneOrMoreIds ==
    Returned =>
        LET last == Last(OutputLines)
        IN  /\ Len(last) = 1
            /\ last[1].k = "vid"
            /\ Len(last[1].v) >= 1
            /\ \A y \in 1..Len(last[1].v) : last[1].v[y] # NaN

\* C27: the line written is the validNoteIds comment alone and every entry
\* it lists is a decimal number, but it lists none at all, reading
\* `<!-- validNoteIds:  -->`, exactly when no record was added or updated.
C27_ZeroOrMoreIds ==
    Returned =>
        LET last == Last(OutputLines)
        IN  /\ Len(last) = 1
            /\ last[1].k = "vid"
            /\ \A y \in 1..Len(last[1].v) : last[1].v[y] # NaN
            /\ last[1].v = <<>> <=> Accumulated = {}

\* A completed sync of a document of one line of plain text: the file now
\* ends with a line that lists no identifier.
C27_Witness ==
    /\ pc = "done"
    /\ wrote
    /\ InputLines = <<L_text>>
    /\ Split(file) = <<L_text, <<VID(<<>>)>>>>

\* The lines whose record the last completed sync skipped as a duplicate:
\* valid flashcard lines of its input without an identifier comment for which
\* no add was answered.
PrevSkippedLines ==
    IF prev.outcome = "none" THEN {}
    ELSE LET pl == Split(prev.content)
         IN  {pl[j] : j \in {x \in ValidCardsOf(pl) :
                 /\ ~NoteIdMatch(pl[x])
                 /\ \A y \in 1..Len(prev.adds) : prev.adds[y].line # x}}

\* C28: when process() returns in a sync that follows one which skipped a
\* record as a duplicate, addNote has been sent again for that record's line;
\* and wherever the store has again answered with a duplicate, the line is
\* unchanged and is in the output without an identifier comment.
C28_DuplicateStaysUnsynced ==
    Returned =>
        LET il == InputLines
            ol == OutputLines
        IN  \A l \in PrevSkippedLines :
                /\ \E k \in 1..Len(reqs) :
                       /\ reqs[k].op = "addNote"
                       /\ il[reqs[k].line] = l
                       /\ reqs[k].front = FrontOf(l)
                       /\ reqs[k].back = BackOf(l)
                /\ \A k \in 1..Len(reqs) :
                       (reqs[k].op = "addNote" /\ reqs[k].res = "dup"
                        /\ il[reqs[k].line] = l) =>
                           /\ lines[reqs[k].line] = l
                           /\ \E j \in 1..Len(ol) : ol[j] = l

====
